---- MODULE Spec2Model ----
(***************************************************************************)
(* Model of .github/scripts/analyze_issue.py: one run of the issue         *)
(* analyzer (main -> analyze_with_gemini -> web_search -> send_to_slack).  *)
(*                                                                         *)
(* Python str values are TLA+ strings (Len, SubSeq and \o act on them      *)
(* character by character).  Python/JSON values are tagged records, one    *)
(* record shape per Python type, and a Python dict is a function from its  *)
(* keys (strings) to values.  Non-ASCII characters of the source's         *)
(* literals are transliterated to ASCII, and the backquote, which a TLA+   *)
(* string cannot hold, is written "~" in every text: the code fence        *)
(* marker of three backquotes is "~~~".                                    *)
(***************************************************************************)
EXTENDS Integers, Sequences, FiniteSets, TLC

(***************************************************************************)
(* Python values                                                           *)
(***************************************************************************)
PyNone == [t |-> "NoneType"]
PyStr(s) == [t |-> "str", s |-> s]
PyBool(b) == [t |-> "bool", b |-> b]
PyInt(n) == [t |-> "int", n |-> n]
PyList(items) == [t |-> "list", items |-> items]
PyDict(d) == [t |-> "dict", d |-> d]

EmptyDict == [k \in {} |-> PyNone]

\* bool(v): the truth value Python's `if v`, `not v`, `a and b` use.
Truthy(v) ==
    CASE v.t = "NoneType" -> FALSE
      [] v.t = "str" -> v.s # ""
      [] v.t = "bool" -> v.b
      [] v.t = "int" -> v.n # 0
      [] v.t = "list" -> Len(v.items) > 0
      [] v.t = "dict" -> DOMAIN v.d # {}

\* d.get(key, default) on a dict's key/value function.
DictGet(d, key, default) == IF key \in DOMAIN d THEN d[key] ELSE default

\* d[key] = value
DictSet(d, key, value) == [k \in DOMAIN d \cup {key} |-> IF k = key THEN value ELSE d[k]]

(***************************************************************************)
(* str methods                                                             *)
(***************************************************************************)
\* s[m-1:n] with 1-based inclusive bounds: out-of-range bounds are clipped
Slice(s, m, n) ==
    LET lo == IF m < 1 THEN 1 ELSE m
        hi == IF n > Len(s) THEN Len(s) ELSE n
    IN  IF lo > hi THEN "" ELSE SubSeq(s, lo, hi)

\* the character at position i (1-based), "" past either end
Char(s, i) == Slice(s, i, i)

\* the characters str.strip() removes (of the ones the model's texts use)
Whitespace == {" ", "\n", "\t", "\r"}

\* s.strip()
Strip(s) ==
    LET Kept(i) == Char(s, i) \notin Whitespace
    IN  IF \A i \in 1..Len(s) : ~Kept(i) THEN ""
        ELSE Slice(s,
                   CHOOSE i \in 1..Len(s) : Kept(i) /\ \A j \in 1..(i - 1) : ~Kept(j),
                   CHOOSE i \in 1..Len(s) : Kept(i) /\ \A j \in (i + 1)..Len(s) : ~Kept(j))

\* s.startswith(prefix)
StartsWith(s, prefix) ==
    Len(s) >= Len(prefix) /\ Slice(s, 1, Len(prefix)) = prefix

\* s.find(sub, start), 1-based; 0 when sub does not occur at or after start
Find(s, sub, start) ==
    LET last == Len(s) - Len(sub) + 1
        At(i) == SubSeq(s, i, i + Len(sub) - 1) = sub
    IN  IF \A i \in start..last : ~At(i) THEN 0
        ELSE CHOOSE i \in start..last : At(i) /\ \A j \in start..(i - 1) : ~At(j)

\* s.split(sep)[1] for an s in which sep occurs: the text between the first
\* occurrence of sep and the next one (or the end of s).
SplitSecond(s, sep) ==
    LET first == Find(s, sep, 1)
        from == first + Len(sep)
        next == Find(s, sep, from)
    IN  IF next = 0 THEN Slice(s, from, Len(s)) ELSE Slice(s, from, next - 1)

\* s[n:]
DropPrefix(s, n) == Slice(s, n + 1, Len(s))

\* s[:n]
Truncate(s, n) == Slice(s, 1, n)

(***************************************************************************)
(* json.loads, for texts made of objects, arrays, strings without          *)
(* backslash escapes, unsigned integers, true, false and null.             *)
(***************************************************************************)
JsonWhitespace == {" ", "\n", "\t", "\r"}
Digits == "0123456789"
IsDigit(c) == c # "" /\ Find(Digits, c, 1) # 0
DigitValue(c) == Find(Digits, c, 1) - 1

ParseFail == [ok |-> FALSE]
ParseOk(v, i) == [ok |-> TRUE, v |-> v, i |-> i]

\* first position >= i that holds no JSON whitespace (Len(s) + 1 at the end)
SkipWs(s, i) ==
    CHOOSE j \in i..(Len(s) + 1) :
        /\ Char(s, j) \notin JsonWhitespace
        /\ \A k \in i..(j - 1) : Char(s, k) \in JsonWhitespace

\* a string literal opening at s[i] = '"'; control characters are rejected
ParseString(s, i) ==
    LET close == Find(s, "\"", i + 1)
    IN  IF Char(s, i) # "\"" \/ close = 0 THEN ParseFail
        ELSE IF \E j \in (i + 1)..(close - 1) : Char(s, j) \in {"\n", "\t", "\r"}
             THEN ParseFail
        ELSE ParseOk(Slice(s, i + 1, close - 1), close + 1)

RECURSIVE DigitsValue(_, _, _)
DigitsValue(s, i, j) ==
    IF j < i THEN 0 ELSE 10 * DigitsValue(s, i, j - 1) + DigitValue(Char(s, j))

\* an integer literal (0 | [1-9][0-9]*) opening at s[i]
ParseNumber(s, i) ==
    IF Char(s, i) = "0" THEN ParseOk(PyInt(0), i + 1)
    ELSE LET end == CHOOSE j \in i..(Len(s) + 1) :
                        ~IsDigit(Char(s, j)) /\ \A k \in i..(j - 1) : IsDigit(Char(s, k))
         IN  IF end = i THEN ParseFail
             ELSE ParseOk(PyInt(DigitsValue(s, i, end - 1)), end)

RECURSIVE ParseValue(_, _)
RECURSIVE ParseItems(_, _, _)
RECURSIVE ParseMembers(_, _, _)

\* the items of an array after "[" or ",": s[i] starts a value
ParseItems(s, i, acc) ==
    LET item == ParseValue(s, i)
    IN  IF ~item.ok THEN ParseFail
        ELSE LET j == SkipWs(s, item.i)
                 items == Append(acc, item.v)
             IN  IF Char(s, j) = "]" THEN ParseOk(PyList(items), j + 1)
                 ELSE IF Char(s, j) = "," THEN ParseItems(s, SkipWs(s, j + 1), items)
                 ELSE ParseFail

\* the members of an object after "{" or ",": s[i] starts a key; a
\* repeated key keeps its last value
ParseMembers(s, i, acc) ==
    LET key == ParseString(s, i)
    IN  IF ~key.ok THEN ParseFail
        ELSE LET colon == SkipWs(s, key.i)
             IN  IF Char(s, colon) # ":" THEN ParseFail
                 ELSE LET val == ParseValue(s, SkipWs(s, colon + 1))
                      IN  IF ~val.ok THEN ParseFail
                          ELSE LET j == SkipWs(s, val.i)
                                   d == DictSet(acc, key.v, val.v)
                               IN  IF Char(s, j) = "}" THEN ParseOk(PyDict(d), j + 1)
                                   ELSE IF Char(s, j) = ","
                                        THEN ParseMembers(s, SkipWs(s, j + 1), d)
                                   ELSE ParseFail

ParseValue(s, i) ==
    LET c == Char(s, i)
    IN  CASE c = "\"" ->
              LET str == ParseString(s, i)
              IN  IF str.ok THEN ParseOk(PyStr(str.v), str.i) ELSE ParseFail
          [] c = "{" ->
              LET j == SkipWs(s, i + 1)
              IN  IF Char(s, j) = "}" THEN ParseOk(PyDict(EmptyDict), j + 1)
                  ELSE ParseMembers(s, j, EmptyDict)
          [] c = "[" ->
              LET j == SkipWs(s, i + 1)
              IN  IF Char(s, j) = "]" THEN ParseOk(PyList(<<>>), j + 1)
                  ELSE ParseItems(s, j, <<>>)
          [] StartsWith(DropPrefix(s, i - 1), "null") -> ParseOk(PyNone, i + 4)
          [] StartsWith(DropPrefix(s, i - 1), "true") -> ParseOk(PyBool(TRUE), i + 4)
          [] StartsWith(DropPrefix(s, i - 1), "false") -> ParseOk(PyBool(FALSE), i + 5)
          [] IsDigit(c) -> ParseNumber(s, i)
          [] OTHER -> ParseFail

\* json.loads(s): [ok |-> TRUE, v |-> value], or [ok |-> FALSE] where
\* json.loads raises json.JSONDecodeError (no value, or extra data after it)
JsonLoads(s) ==
    LET r == ParseValue(s, SkipWs(s, 1))
    IN  IF r.ok /\ SkipWs(s, r.i) = Len(s) + 1 THEN [ok |-> TRUE, v |-> r.v]
        ELSE ParseFail


(***************************************************************************)
(* Configuration (module globals of the script)                            *)
(***************************************************************************)
ISSUE_TITLE == "Crash on startup"
ISSUE_NUMBER == "42"
ISSUE_URL == "https://example.test/issues/42"
ISSUE_AUTHOR == "carol"
ASSIGNEE_USERNAME == "bob"
REPO_NAME == "acme/app"

\* USER_MAPPING = {}: GitHub username -> Slack user id
USER_MAPPING == [k \in {} |-> ""]

\* the values os.environ.get gives a credential: unset, set empty, set
EnvValues(v) == {PyNone, PyStr(""), PyStr(v)}

Fence == "~~~"

UnavailableMessage == "Web search nao disponivel (TAVILY_API_KEY nao configurada)"
NoResultsMessage == "Nenhum resultado encontrado"
SearchErrorPrefix == "Erro na pesquisa: "
FallbackSuggestion == "Revisar a issue manualmente"
MissingBodyText == "(sem descricao)"
ResearchNote == "_Pesquisa web realizada para complementar a analise_"
FooterText == "Criada por: " \o ISSUE_AUTHOR \o " | Analise por: Gemini 2.0 Flash"

SummaryLimit == 500
ContentLimit == 200
MaxResults == 3

RequiredFields == {"summary", "classification", "priority", "suggestions", "needs_research"}

(***************************************************************************)
(* What the external services can answer                                   *)
(***************************************************************************)
LongLen == 510
LongContentLen == 205

RECURSIVE Repeat(_, _)
Repeat(c, n) ==
    IF n <= 0 THEN "" ELSE IF n = 1 THEN c
    ELSE Repeat(c, n \div 2) \o Repeat(c, n - (n \div 2))

BodyFull ==
    "{\"summary\": \"App crashes\", \"classification\": \"bug\", \"priority\": \"high\", \"suggestions\": [\"Check logs\", \"Add a test\"], \"needs_research\": false, \"research_query\": null}"
BodyResearch ==
    "{\"summary\": \"Fails on 3.13\", \"classification\": \"bug\", \"priority\": \"critical\", \"suggestions\": [\"Pin version\"], \"needs_research\": true, \"research_query\": \"python 3.13 crash\"}"
BodyResearchNoQuery ==
    "{\"summary\": \"Maybe new\", \"classification\": \"question\", \"priority\": \"low\", \"suggestions\": [\"Ask\"], \"needs_research\": true, \"research_query\": null}"
BodyQueryNoResearch ==
    "{\"summary\": \"Docs\", \"classification\": \"documentation\", \"priority\": \"low\", \"suggestions\": [\"Fix typo\"], \"needs_research\": false, \"research_query\": \"unused\"}"
BodySearchResultsKey ==
    "{\"summary\": \"Dup\", \"classification\": \"other\", \"priority\": \"low\", \"suggestions\": [\"Close\"], \"needs_research\": false, \"search_results\": \"seen it\"}"
BodyResearchNoSuggestions ==
    "{\"summary\": \"Odd\", \"needs_research\": true, \"research_query\": \"odd error\"}"
BodySuggestionsNull ==
    "{\"summary\": \"Hm\", \"classification\": \"bug\", \"priority\": \"low\", \"suggestions\": null, \"needs_research\": false}"
BodyClassificationList ==
    "{\"summary\": \"Hm\", \"classification\": [\"bug\", \"feature\"], \"priority\": \"low\", \"suggestions\": [], \"needs_research\": false}"
BodyFenceInside ==
    "{\"summary\": \"Wrap the log in ~~~ marks\", \"classification\": \"feature\", \"priority\": \"medium\", \"suggestions\": [\"json output\"], \"needs_research\": false}"
BodyEmptyObject == "{}"
BodyArray == "[1, 2]"
BodyString == "\"json is fine\""
BodyGarbage == "Sorry, I cannot analyse this issue."
BodyGarbageJson == "json was requested but { \"summary\": "
BodyLongGarbage == "The issue says: " \o Repeat("x", LongLen)
BodyPadded == " \n" \o BodyFull \o "\n "

\* the texts T a model answers with when it adds no code fence
Bodies ==
    {BodyFull, BodyResearch, BodyResearchNoQuery, BodyQueryNoResearch,
     BodySearchResultsKey, BodyResearchNoSuggestions, BodySuggestionsNull,
     BodyClassificationList, BodyFenceInside, BodyEmptyObject, BodyArray,
     BodyString, BodyGarbage, BodyGarbageJson, BodyLongGarbage, BodyPadded, ""}

\* the opening lines of a markdown code fence
Openers == {Fence, Fence \o "json"}

\* T inside a markdown code fence
Wrap(opener, T) == opener \o "\n" \o T \o "\n" \o Fence

\* response.text of the first model call
FirstTexts == Bodies \cup {Wrap(o, T) : o \in Openers, T \in Bodies} \cup {Fence}

\* a generate_content call: it raises, or it returns a response whose .text
\* raises (no candidate text), or a response with a text
ModelOutcomes(texts) ==
    {[kind |-> "error"], [kind |-> "no_text"]} \cup {[kind |-> "text", text |-> t] : t \in texts}

NoResponse == [kind |-> "none"]

EnrichGood == "{\"suggestions\": [\"Pin to 3.12\", \"Upgrade lib\", \"Report upstream\"]}"
EnrichTexts ==
    {EnrichGood, Wrap(Fence \o "json", EnrichGood), "I could not improve them.",
     "[\"Pin to 3.12\"]", "{}", "{\"suggestions\": null}", "{\"suggestions\": \"Pin to 3.12\"}"}

ResultShort == [title |-> "Release notes", content |-> "Fixed in 3.13.1"]
ResultLong == [title |-> "Bug tracker", content |-> Repeat("y", LongContentLen)]
ResultPool == {ResultShort, ResultLong}

RECURSIVE SeqsUpTo(_, _)
SeqsUpTo(S, n) ==
    IF n = 0 THEN {<<>>}
    ELSE LET shorter == SeqsUpTo(S, n - 1)
         IN  shorter \cup {Append(q, e) : q \in {r \in shorter : Len(r) = n - 1}, e \in S}

\* client.search(query, max_results=3): it raises, or returns at most
\* max_results results
SearchOutcomes ==
    {[kind |-> "error", message |-> "timed out"]}
        \cup {[kind |-> "ok", results |-> rs] : rs \in SeqsUpTo(ResultPool, MaxResults)}

\* requests.post + raise_for_status: a success status, an HTTPError, a
\* ConnectionError (both RequestException)
PostOutcomes == {"ok", "http_error", "transport_error"}

(***************************************************************************)
(* State of one run                                                        *)
(***************************************************************************)
VARIABLES
    GOOGLE_API_KEY,       \* os.environ.get("GOOGLE_API_KEY")
    SLACK_WEBHOOK_URL,    \* os.environ.get("SLACK_WEBHOOK_URL")
    TAVILY_API_KEY,       \* os.environ.get("TAVILY_API_KEY")
    ISSUE_BODY,           \* os.environ.get("ISSUE_BODY", "")
    pc,                   \* where the run is: main, analyze, search, enrich, notify, exited
    invoked,              \* the script's functions entered so far, in order
    calls,                \* the requests sent to external services so far, in order
    first_response,       \* what the first generate_content call gave
    response_text,        \* the text handed to json.loads after the first call
    first_analysis,       \* analysis as lines 111-122 leave it
    enrichment_response,  \* what the second generate_content call gave
    analysis,             \* the analysis value
    slack_message,        \* slack_message["blocks"] once built
    send_result,          \* <<v>> once send_to_slack has returned v
    exception,            \* the uncaught exception that ended the run, if any
    exit_code             \* the process exit status once the run has ended

vars ==
    <<GOOGLE_API_KEY, SLACK_WEBHOOK_URL, TAVILY_API_KEY, ISSUE_BODY, pc, invoked,
      calls, first_response, response_text, first_analysis, enrichment_response,
      analysis, slack_message, send_result, exception, exit_code>>

env == <<GOOGLE_API_KEY, SLACK_WEBHOOK_URL, TAVILY_API_KEY, ISSUE_BODY>>

NoException == [type |-> "", in |-> ""]
Raised(type, fn) == [type |-> type, in |-> fn]

Init ==
    /\ GOOGLE_API_KEY \in EnvValues("g-key")
    /\ SLACK_WEBHOOK_URL \in EnvValues("https://hooks.example.test/T1")
    /\ TAVILY_API_KEY \in EnvValues("t-key")
    /\ ISSUE_BODY \in {"", "It crashes."}
    /\ pc = "main"
    /\ invoked = <<>>
    /\ calls = <<>>
    /\ first_response = NoResponse
    /\ response_text = ""
    /\ first_analysis = PyNone
    /\ enrichment_response = NoResponse
    /\ analysis = PyNone
    /\ slack_message = <<>>
    /\ send_result = <<>>
    /\ exception = NoException
    /\ exit_code = PyNone

(***************************************************************************)
(* web_search                                                              *)
(***************************************************************************)
RECURSIVE Join(_, _)
\* sep.join(items)
Join(sep, items) ==
    IF items = <<>> THEN ""
    ELSE IF Len(items) = 1 THEN items[1]
    ELSE items[1] \o sep \o Join(sep, Tail(items))

\* f"- {r['title']}: {r['content'][:200]}..."
FormatResult(r) == "- " \o r.title \o ": " \o Truncate(r.content, ContentLimit) \o "..."

\* web_search without the test of TAVILY_API_KEY
web_search_unguarded(query, out) ==
    [result |->
         IF out.kind = "ok"
         THEN IF out.results = <<>> THEN NoResultsMessage
              ELSE Join("\n", [i \in 1..Len(out.results) |-> FormatResult(out.results[i])])
         ELSE SearchErrorPrefix \o out.message,
     calls |-> <<[svc |-> "tavily", query |-> query, max_results |-> MaxResults]>>]

\* web_search(query) when client.search answers `out`: the string returned
\* and the requests sent
web_search(query, out) ==
    IF ~Truthy(TAVILY_API_KEY)
    THEN [result |-> UnavailableMessage, calls |-> <<>>]
    ELSE [result |->
              IF out.kind = "ok"
              THEN IF out.results = <<>> THEN NoResultsMessage
                   ELSE Join("\n", [i \in 1..Len(out.results) |-> FormatResult(out.results[i])])
              ELSE SearchErrorPrefix \o out.message,
          calls |-> <<[svc |-> "tavily", query |-> query, max_results |-> MaxResults]>>]

(***************************************************************************)
(* analyze_with_gemini                                                     *)
(***************************************************************************)
\* lines 102-109 (and 144-149): strip, drop a leading code fence and a
\* "json" tag, strip
StripFence(text) ==
    LET stripped == Strip(text)
        inner == SplitSecond(stripped, Fence)
        unfenced ==
            IF StartsWith(stripped, Fence)
            THEN IF StartsWith(inner, "json") THEN DropPrefix(inner, 4) ELSE inner
            ELSE stripped
    IN  Strip(unfenced)

\* the fallback without the [:500] on the summary
FallbackAnalysis_untruncated(text) ==
    PyDict([summary |-> PyStr(text),
            classification |-> PyStr("other"),
            priority |-> PyStr("medium"),
            suggestions |-> PyList(<<PyStr(FallbackSuggestion)>>),
            needs_research |-> PyBool(FALSE),
            research_query |-> PyNone])

\* the except json.JSONDecodeError branch
FallbackAnalysis(text) ==
    PyDict([summary |-> PyStr(Truncate(text, SummaryLimit)),
            classification |-> PyStr("other"),
            priority |-> PyStr("medium"),
            suggestions |-> PyList(<<PyStr(FallbackSuggestion)>>),
            needs_research |-> PyBool(FALSE),
            research_query |-> PyNone])

\* lines 111-122 on the cleaned response text
FirstAnalysis(text) ==
    LET loaded == JsonLoads(text)
    IN  IF loaded.ok THEN loaded.v ELSE FallbackAnalysis(text)

\* the research test without its needs_research half
NeedsResearch_query_only(a) == Truthy(DictGet(a.d, "research_query", PyNone))

\* analysis.get("needs_research") and analysis.get("research_query")
NeedsResearch(a) ==
    /\ Truthy(DictGet(a.d, "needs_research", PyNone))
    /\ Truthy(DictGet(a.d, "research_query", PyNone))

\* lines 143-152: the suggestions after the enrichment response `out`
EnrichedSuggestions(a, out) ==
    IF out.kind # "text" THEN a.d["suggestions"]
    ELSE LET enriched == JsonLoads(StripFence(out.text))
         IN  IF ~enriched.ok THEN a.d["suggestions"]
             ELSE IF enriched.v.t # "dict" THEN a.d["suggestions"]
             ELSE DictGet(enriched.v.d, "suggestions", a.d["suggestions"])

\* an uncaught exception ends the process with a traceback and status 1
Crash(e) ==
    /\ pc' = "exited"
    /\ exception' = e
    /\ exit_code' = PyInt(1)

\* main up to the call of analyze_with_gemini
Main ==
    /\ pc = "main"
    /\ invoked' = Append(invoked, "main")
    /\ IF ~Truthy(GOOGLE_API_KEY)
       THEN /\ pc' = "exited"
            /\ exit_code' = PyInt(1)
       ELSE /\ pc' = "analyze"
            /\ exit_code' = exit_code
    /\ UNCHANGED <<env, calls, first_response, response_text, first_analysis,
                   enrichment_response, analysis, slack_message, send_result, exception>>

\* analyze_with_gemini from its entry to the research test of line 125
AnalyzeFirst ==
    /\ pc = "analyze"
    /\ invoked' = Append(invoked, "analyze_with_gemini")
    /\ calls' = Append(calls, [svc |-> "gemini", prompt |-> "analysis",
                               title |-> ISSUE_TITLE,
                               body |-> IF ISSUE_BODY # "" THEN ISSUE_BODY ELSE MissingBodyText])
    /\ \E out \in ModelOutcomes(FirstTexts) :
        /\ first_response' = out
        /\ IF out.kind = "error"
           THEN /\ Crash(Raised("GoogleAPIError", "analyze_with_gemini"))
                /\ UNCHANGED <<response_text, first_analysis, analysis>>
           ELSE IF out.kind = "no_text"
           THEN /\ Crash(Raised("ValueError", "analyze_with_gemini"))
                /\ UNCHANGED <<response_text, first_analysis, analysis>>
           ELSE LET text == StripFence(out.text)
                    a == FirstAnalysis(text)
                IN  /\ response_text' = text
                    /\ first_analysis' = a
                    /\ analysis' = a
                    /\ IF a.t # "dict"
                       THEN Crash(Raised("AttributeError", "analyze_with_gemini"))
                       ELSE /\ pc' = IF NeedsResearch(a) THEN "search" ELSE "notify"
                            /\ UNCHANGED <<exception, exit_code>>
    /\ UNCHANGED <<env, enrichment_response, slack_message, send_result>>

\* lines 126-127: the call of web_search and the attachment of its result
Research ==
    /\ pc = "search"
    /\ invoked' = Append(invoked, "web_search")
    /\ \E out \in SearchOutcomes :
        LET r == web_search(analysis.d["research_query"], out)
        IN  /\ calls' = calls \o r.calls
            /\ analysis' = PyDict(DictSet(analysis.d, "search_results", PyStr(r.result)))
    /\ pc' = "enrich"
    /\ UNCHANGED <<env, first_response, response_text, first_analysis,
                   enrichment_response, slack_message, send_result, exception, exit_code>>

\* lines 130-154: the enrichment prompt, the second model call and the
\* update of the suggestions
Enrich ==
    /\ pc = "enrich"
    /\ IF "suggestions" \notin DOMAIN analysis.d
       THEN /\ Crash(Raised("KeyError", "analyze_with_gemini"))
            /\ UNCHANGED <<calls, enrichment_response, analysis>>
       ELSE /\ calls' = Append(calls, [svc |-> "gemini", prompt |-> "enrichment",
                                       title |-> ISSUE_TITLE,
                                       query |-> analysis.d["research_query"],
                                       results |-> analysis.d["search_results"],
                                       suggestions |-> analysis.d["suggestions"]])
            /\ \E out \in ModelOutcomes(EnrichTexts) :
                /\ enrichment_response' = out
                /\ IF out.kind = "error"
                   THEN /\ Crash(Raised("GoogleAPIError", "analyze_with_gemini"))
                        /\ analysis' = analysis
                   ELSE /\ analysis' = PyDict(DictSet(analysis.d, "suggestions",
                                                       EnrichedSuggestions(analysis, out)))
                        /\ pc' = "notify"
                        /\ UNCHANGED <<exception, exit_code>>
    /\ UNCHANGED <<env, invoked, first_response, response_text, first_analysis,
                   slack_message, send_result>>

(***************************************************************************)
(* send_to_slack                                                           *)
(***************************************************************************)
class_emoji ==
    [bug |-> ":bug:", feature |-> ":sparkles:", question |-> ":question:",
     documentation |-> ":books:", other |-> ":memo:"]

priority_emoji ==
    [low |-> ":white_circle:", medium |-> ":large_yellow_circle:",
     high |-> ":large_orange_circle:", critical |-> ":red_circle:"]

\* table.get(key, default) for a table with str keys
EmojiGet(table, key, default) ==
    IF key.t = "str" /\ key.s \in DOMAIN table THEN table[key.s] ELSE default

\* values a dict lookup accepts as a key; a list or a dict raises TypeError
Hashable(v) == v.t \notin {"list", "dict"}

\* values a for loop accepts; None, a number or a bool raises TypeError
Iterable(v) == v.t \in {"list", "str", "dict"}

RECURSIVE SetToSeq(_)
SetToSeq(S) ==
    IF S = {} THEN <<>>
    ELSE LET e == CHOOSE k \in S : TRUE IN <<e>> \o SetToSeq(S \ {e})

\* the values `for s in v` yields (a dict yields its keys; their order is
\* not part of the model)
Iterate(v) ==
    CASE v.t = "list" -> v.items
      [] v.t = "str" -> [i \in 1..Len(v.s) |-> PyStr(Char(v.s, i))]
      [] v.t = "dict" -> LET keys == SetToSeq(DOMAIN v.d)
                         IN  [i \in 1..Len(keys) |-> PyStr(keys[i])]

\* the assignee's mention
Mention ==
    IF ASSIGNEE_USERNAME \in DOMAIN USER_MAPPING /\ USER_MAPPING[ASSIGNEE_USERNAME] # ""
    THEN "<@" \o USER_MAPPING[ASSIGNEE_USERNAME] \o ">"
    ELSE "@" \o ASSIGNEE_USERNAME

\* list.insert(index, item) with Python's 0-based, possibly negative, index
ListInsert(list, index, item) ==
    LET n == Len(list)
        shifted == IF index < 0 THEN index + n ELSE index
        k == IF shifted < 0 THEN 0 ELSE IF shifted > n THEN n ELSE shifted
    IN  SubSeq(list, 1, k) \o <<item>> \o SubSeq(list, k + 1, n)

ResearchBlock == [type |-> "context", elements |-> <<ResearchNote>>]
FooterBlock == [type |-> "context", elements |-> <<FooterText>>]

\* slack_message["blocks"] as lines 191-261 build it.  A block keeps the
\* values its f-string interpolates, not their rendering.
BuildBlocks(a) ==
    LET classification == DictGet(a.d, "classification", PyStr("other"))
        priority == DictGet(a.d, "priority", PyStr("medium"))
        bullets == Iterate(DictGet(a.d, "suggestions", PyList(<<>>)))
        blocks ==
            << [type |-> "header", text |-> <<"Nova Issue #", ISSUE_NUMBER>>],
               [type |-> "section",
                fields |-> << <<"*Repositorio:*", REPO_NAME>>, <<"*Atribuida para:*", Mention>> >>],
               [type |-> "section",
                fields |-> << <<"*Tipo:*", EmojiGet(class_emoji, classification, ":memo:"), classification>>,
                              <<"*Prioridade:*", EmojiGet(priority_emoji, priority, ":white_circle:"), priority>> >>],
               [type |-> "section", text |-> <<"*Titulo:*", ISSUE_URL, ISSUE_TITLE>>],
               [type |-> "section", text |-> <<"*Resumo da IA:*", DictGet(a.d, "summary", PyStr("N/A"))>>],
               [type |-> "section", text |-> <<"*Sugestoes:*", bullets>>],
               [type |-> "divider"],
               FooterBlock >>
    IN  IF Truthy(DictGet(a.d, "search_results", PyNone))
        THEN ListInsert(blocks, -1, ResearchBlock)
        ELSE blocks

\* send_to_slack can build its message: no TypeError at line 188 (the loop
\* over the suggestions) or at lines 211-212 (the emoji lookups)
CanBuild(a) ==
    /\ Iterable(DictGet(a.d, "suggestions", PyList(<<>>)))
    /\ Hashable(DictGet(a.d, "classification", PyStr("other")))
    /\ Hashable(DictGet(a.d, "priority", PyStr("medium")))

\* main from the return of analyze_with_gemini to its end: the diagnostic
\* lines, send_to_slack, and the normal end of the process
Notify ==
    /\ pc = "notify"
    /\ invoked' = Append(invoked, "send_to_slack")
    /\ pc' = "exited"
    /\ IF ~Truthy(SLACK_WEBHOOK_URL)
       THEN /\ send_result' = <<FALSE>>
            /\ exit_code' = PyInt(0)
            /\ UNCHANGED <<calls, slack_message, exception>>
       ELSE IF ~CanBuild(analysis)
       THEN /\ exception' = Raised("TypeError", "send_to_slack")
            /\ exit_code' = PyInt(1)
            /\ UNCHANGED <<calls, slack_message, send_result>>
       ELSE \E post \in PostOutcomes :
            /\ slack_message' = BuildBlocks(analysis)
            /\ calls' = Append(calls, [svc |-> "slack", url |-> SLACK_WEBHOOK_URL.s,
                                       blocks |-> BuildBlocks(analysis)])
            /\ send_result' = <<post = "ok">>
            /\ exit_code' = PyInt(0)
            /\ exception' = exception
    /\ UNCHANGED <<env, first_response, response_text, first_analysis,
                   enrichment_response, analysis>>

Next == Main \/ AnalyzeFirst \/ Research \/ Enrich \/ Notify

Spec == Init /\ [][Next]_vars

(***************************************************************************)
(* Properties                                                              *)
(***************************************************************************)
Range(seq) == {seq[i] : i \in DOMAIN seq}
CallsTo(svc) == {i \in DOMAIN calls : calls[i].svc = svc}
Times(fn) == Cardinality({i \in DOMAIN invoked : invoked[i] = fn})

\* analyze_with_gemini has returned to main
AnalyzerReturned ==
    pc = "notify" \/ (pc = "exited" /\ "send_to_slack" \in Range(invoked))

\* C1: for every text the first model call returns, analyze_with_gemini
\* returns (it does not raise) a dict that holds the five required fields.
C1_AllRequiredFields ==
    first_response.kind = "text" =>
        /\ exception.in # "analyze_with_gemini"
        /\ AnalyzerReturned =>
            /\ analysis.t = "dict"
            /\ RequiredFields \subseteq DOMAIN analysis.d

\* the first response had a text and json.loads rejected the cleaned text
FirstParseFailed == first_response.kind = "text" /\ ~JsonLoads(response_text).ok

\* C2: when the first response text does not parse as JSON,
\* analyze_with_gemini does not raise and returns the degraded result: the
\* summary is the first 500 characters of the cleaned response text, the
\* classification is "other", the priority "medium", there is exactly one
\* generic suggestion and needs_research is false; no web search and no
\* second model call is made in that run.
C2_FallbackResult ==
    FirstParseFailed =>
        /\ exception.in # "analyze_with_gemini"
        /\ AnalyzerReturned
        /\ analysis = first_analysis
        /\ analysis.t = "dict"
        /\ DOMAIN analysis.d = RequiredFields \cup {"research_query"}
        /\ analysis.d["summary"].t = "str"
        /\ StartsWith(response_text, analysis.d["summary"].s)
        /\ Len(analysis.d["summary"].s) =
               IF Len(response_text) < SummaryLimit THEN Len(response_text) ELSE SummaryLimit
        /\ analysis.d["classification"] = PyStr("other")
        /\ analysis.d["priority"] = PyStr("medium")
        /\ analysis.d["suggestions"] = PyList(<<PyStr(FallbackSuggestion)>>)
        /\ analysis.d["needs_research"] = PyBool(FALSE)
        /\ "web_search" \notin Range(invoked)
        /\ CallsTo("tavily") = {}
        /\ Cardinality(CallsTo("gemini")) = 1

\* a run that took the fallback on a text longer than the summary limit and
\* went on to the end of main
C2_Witness ==
    /\ FirstParseFailed
    /\ Len(response_text) > SummaryLimit
    /\ pc = "exited"
    /\ send_result # <<>>

\* C3: a run that has the language-model credential is never aborted: it
\* ends only after send_to_slack was invoked, with no uncaught exception,
\* and with a webhook POST attempted when the webhook URL is configured.
C3_NotificationReached ==
    (pc = "exited" /\ Truthy(GOOGLE_API_KEY)) =>
        /\ exception = NoException
        /\ "send_to_slack" \in Range(invoked)
        /\ Truthy(SLACK_WEBHOOK_URL) => CallsTo("slack") # {}

\* C4: the exit status is 1 exactly when the language-model credential is
\* missing, and then no external call was made; every other run ends with
\* status 0.
C4_ExitCodes ==
    pc = "exited" =>
        /\ exit_code = PyInt(1) <=> ~Truthy(GOOGLE_API_KEY)
        /\ ~Truthy(GOOGLE_API_KEY) => calls = <<>>
        /\ Truthy(GOOGLE_API_KEY) => exit_code = PyInt(0)

\* C5: a response text T wrapped in code-fence markers gives the same text
\* to json.loads, and the same analysis, as T itself.
C5_FenceEquivalence ==
    \A o \in Openers, T \in Bodies :
        first_response = [kind |-> "text", text |-> Wrap(o, T)] =>
            /\ response_text = StripFence(T)
            /\ first_analysis = FirstAnalysis(StripFence(T))

\* C6: no request goes to an optional service that is not configured:
\* without the search key web_search sends nothing and returns the fixed
\* unavailable message, without the webhook URL send_to_slack sends nothing
\* and returns False, and neither raises.
C6_NoCallWhenUnconfigured ==
    /\ ~Truthy(TAVILY_API_KEY) =>
        /\ CallsTo("tavily") = {}
        /\ "web_search" \in Range(invoked) =>
               analysis.d["search_results"] = PyStr(UnavailableMessage)
    /\ ~Truthy(SLACK_WEBHOOK_URL) =>
        /\ CallsTo("slack") = {}
        /\ slack_message = <<>>
        /\ "send_to_slack" \in Range(invoked) => send_result = <<FALSE>>
        /\ exception.in # "send_to_slack"
    /\ exception.in # "web_search"

\* a run without search key and without webhook URL in which web_search and
\* send_to_slack were both invoked
C6_Witness ==
    /\ ~Truthy(TAVILY_API_KEY)
    /\ ~Truthy(SLACK_WEBHOOK_URL)
    /\ "web_search" \in Range(invoked)
    /\ "send_to_slack" \in Range(invoked)

\* C7: for every analysis analyze_with_gemini returns and every outcome of
\* the POST, send_to_slack sends at most one POST and returns a boolean,
\* never raising to main.
C7_SendNeverRaises ==
    "send_to_slack" \in Range(invoked) =>
        /\ exception.in # "send_to_slack"
        /\ Cardinality(CallsTo("slack")) <= 1
        /\ Len(send_result) = 1
        /\ send_result[1] \in BOOLEAN

\* the place of a request in the pipeline: first model call, web search,
\* enrichment model call, webhook POST
Rank(c) ==
    IF c.svc = "gemini" THEN (IF c.prompt = "analysis" THEN 1 ELSE 3)
    ELSE IF c.svc = "tavily" THEN 2 ELSE 4

\* the first result asks for research: needs_research and research_query
\* are both true values
ResearchAsked ==
    /\ first_analysis.t = "dict"
    /\ Truthy(DictGet(first_analysis.d, "needs_research", PyNone))
    /\ Truthy(DictGet(first_analysis.d, "research_query", PyNone))

\* C8: the external calls occur in the forward order first model call, web
\* search, enrichment model call, webhook POST, each at most once; the
\* search and the enrichment call happen only when the first result asks
\* for research; nothing follows the POST; and a run that ends normally has
\* made exactly the calls its first result and its configuration ask for.
C8_CallOrder ==
    /\ \A i, j \in DOMAIN calls : i < j => Rank(calls[i]) < Rank(calls[j])
    /\ calls # <<>> => Rank(calls[1]) = 1
    /\ \A i \in DOMAIN calls : Rank(calls[i]) \in {2, 3} => ResearchAsked
    /\ "web_search" \in Range(invoked) => ResearchAsked
    /\ \A i \in DOMAIN calls : Rank(calls[i]) = 3 => Times("web_search") = 1
    /\ \A fn \in Range(invoked) : Times(fn) = 1
    /\ (pc = "exited" /\ exception = NoException /\ Truthy(GOOGLE_API_KEY)) =>
           [i \in DOMAIN calls |-> Rank(calls[i])] =
               <<1>> \o (IF ResearchAsked /\ Truthy(TAVILY_API_KEY) THEN <<2>> ELSE <<>>)
                     \o (IF ResearchAsked THEN <<3>> ELSE <<>>)
                     \o (IF Truthy(SLACK_WEBHOOK_URL) THEN <<4>> ELSE <<>>)

\* a run that made all four calls
C8_Witness ==
    /\ Len(calls) = 4
    /\ pc = "exited"

\* C9: the message holds the research context block exactly when a web
\* search was performed in the run; the footer is the last block and the
\* research block, when present, is the one before it.
C9_ResearchBlockIffSearched ==
    slack_message # <<>> =>
        /\ ResearchBlock \in Range(slack_message) <=> "web_search" \in Range(invoked)
        /\ slack_message[Len(slack_message)] = FooterBlock
        /\ ResearchBlock \in Range(slack_message) =>
               slack_message[Len(slack_message) - 1] = ResearchBlock

\* the enrichment text is a JSON object with a suggestions list
EnrichmentWellFormed(text) ==
    LET enriched == JsonLoads(StripFence(text))
    IN  /\ enriched.ok
        /\ enriched.v.t = "dict"
        /\ "suggestions" \in DOMAIN enriched.v.d
        /\ enriched.v.d["suggestions"].t = "list"

\* C10: when the enrichment response does not parse as a JSON object with a
\* suggestions list, analyze_with_gemini swallows the failure: the
\* suggestions are those of the first call and every other field is
\* unchanged, apart from the attached search results.
C10_SuggestionsKept ==
    (enrichment_response.kind = "text" /\ ~EnrichmentWellFormed(enrichment_response.text)) =>
        /\ exception.in # "analyze_with_gemini"
        /\ DOMAIN analysis.d = DOMAIN first_analysis.d \cup {"search_results"}
        /\ \A k \in DOMAIN first_analysis.d \ {"search_results"} :
               analysis.d[k] = first_analysis.d[k]

====
